---- MODULE Spec2Model ----
(***************************************************************************)
(* wifi-stats-cli: the probe-and-parse subsystem (collector.ts,            *)
(* parsers.ts) and the aggregator (main in cli.ts).                        *)
(*                                                                         *)
(* Representation of JavaScript values                                     *)
(*   - a string is a sequence of tokens; a token is a run of letters and   *)
(*     underscores ("SSID", "packet") or any other single character        *)
(*     ("4", ".", ":", " ", "\n");                                         *)
(*   - a value of a union type is a tagged record: Null, Undefined, NaN,   *)
(*     Num(n), Str(s), Obj(o);                                             *)
(*   - the ping metrics are floats: Num carries them in thousandths.       *)
(*                                                                         *)
(* Spec is one run of main, from the parsed options to the exit code.      *)
(* SpecProbe calls pingHost, dnsLookup and runSpeedTest on their own, over *)
(* a wider set of process outcomes, and the two Wi-Fi parsers over a set   *)
(* of tool outputs.  SpecHang is Spec with utilities that may never exit,  *)
(* under a fair event loop.                                                *)
(***************************************************************************)
EXTENDS Integers, Sequences, FiniteSets, TLC

\* ------------------------------------------------------------------------
\* Bounds
\* ------------------------------------------------------------------------
MaxSamples == 1

\* ------------------------------------------------------------------------
\* JavaScript values
\* ------------------------------------------------------------------------
Null == [t |-> "null"]

Undefined == [t |-> "undefined"]

NaN == [t |-> "nan"]

Num(n) == [t |-> "num", n |-> n]

Str(s) == [t |-> "str", s |-> s]

Obj(o) == [t |-> "obj", o |-> o]

Bool(b) == [t |-> "bool", b |-> b]

\* ToBoolean: null, undefined, NaN, 0 and "" are falsy, all else is truthy
Truthy(v) ==
  CASE v.t = "null" -> FALSE
    [] v.t = "undefined" -> FALSE
    [] v.t = "nan" -> FALSE
    [] v.t = "num" -> v.n # 0
    [] v.t = "str" -> v.s # <<>>
    [] v.t = "bool" -> v.b
    [] OTHER -> TRUE

\* a ?? b
Coalesce(a, b) == IF a.t \in {"null", "undefined"} THEN b ELSE a

\* a || b
OrElse(a, b) == IF Truthy(a) THEN a ELSE b

\* const v = ...; Body: v is computed once and named in what follows
With(v, Body(_)) == Body(v)

\* ------------------------------------------------------------------------
\* Text helpers
\* ------------------------------------------------------------------------
Digits == {"0", "1", "2", "3", "4", "5", "6", "7", "8", "9"}

DigitVal(c) ==
  CASE c = "0" -> 0 [] c = "1" -> 1 [] c = "2" -> 2 [] c = "3" -> 3
    [] c = "4" -> 4 [] c = "5" -> 5 [] c = "6" -> 6 [] c = "7" -> 7
    [] c = "8" -> 8 [] c = "9" -> 9

\* the class [\d.]
IsNumCh(c) == c \in Digits \cup {"."}

\* the class \s
IsSpace(c) == c \in {" ", "\n", "\t"}

Max(S) == CHOOSE x \in S : \A y \in S : y <= x

Min(S) == CHOOSE x \in S : \A y \in S : x <= y

Slice(s, i, n) == SubSeq(s, i, i + n - 1)

\* the literal lit occurs in s at index i
HasAt(s, i, lit) ==
  /\ i >= 1 /\ i + Len(lit) - 1 <= Len(s)
  /\ s[i] = lit[1]
  /\ Slice(s, i, Len(lit)) = lit

RECURSIVE NumRun(_, _)
\* length of the longest run of [\d.] tokens of s that starts at index i
NumRun(s, i) ==
  IF i < 1 \/ i > Len(s) THEN 0
  ELSE IF IsNumCh(s[i]) THEN 1 + NumRun(s, i + 1) ELSE 0

RECURSIVE DigitRun(_, _)
\* length of the longest run of digits of s that starts at index i
DigitRun(s, i) ==
  IF i < 1 \/ i > Len(s) THEN 0
  ELSE IF s[i] \in Digits THEN 1 + DigitRun(s, i + 1) ELSE 0

RECURSIVE LineRun(_, _)
\* length of the longest run of tokens other than "\n" that starts at i
LineRun(s, i) ==
  IF i < 1 \/ i > Len(s) THEN 0
  ELSE IF s[i] # "\n" THEN 1 + LineRun(s, i + 1) ELSE 0

RECURSIVE IntOf(_)
\* the value of a sequence of digits (0 for the empty sequence)
IntOf(ds) ==
  IF ds = <<>> THEN 0
  ELSE 10 * IntOf(SubSeq(ds, 1, Len(ds) - 1)) + DigitVal(ds[Len(ds)])

\* String.prototype.trim
Trim(s) ==
  LET keep == {i \in 1..Len(s) : ~IsSpace(s[i])}
  IN IF keep = {} THEN <<>> ELSE SubSeq(s, Min(keep), Max(keep))

RECURSIVE Split(_, _)
\* String.prototype.split(sep) for a one-character separator
Split(s, sep) ==
  LET hits == {i \in 1..Len(s) : s[i] = sep}
  IN IF hits = {} THEN <<s>>
     ELSE <<SubSeq(s, 1, Min(hits) - 1)>> \o Split(SubSeq(s, Min(hits) + 1, Len(s)), sep)

RECURSIVE Join(_, _)
\* Array.prototype.join(sep)
Join(parts, sep) ==
  IF parts = <<>> THEN <<>>
  ELSE IF Len(parts) = 1 THEN parts[1]
  ELSE parts[1] \o <<sep>> \o Join(Tail(parts), sep)

\* Number.parseInt(s, 10): leading white space, a sign, then digits
ParseInt(s) ==
  LET ws == Max({n \in 0..Len(s) : \A k \in 1..n : IsSpace(s[k])})
      neg == ws < Len(s) /\ s[ws + 1] = "-"
      start == IF neg \/ (ws < Len(s) /\ s[ws + 1] = "+") THEN ws + 2 ELSE ws + 1
      n == DigitRun(s, start)
  IN IF n = 0 THEN NaN
     ELSE Num((IF neg THEN -1 ELSE 1) * IntOf(Slice(s, start, n)))

\* Number.parseFloat on a capture of [\d.]+, in thousandths: the longest
\* prefix digits [. digits]; NaN when that prefix has no digit
ParseFloat(s) ==
  LET n1 == DigitRun(s, 1)
      dot == n1 < Len(s) /\ s[n1 + 1] = "."
      n2 == IF dot THEN DigitRun(s, n1 + 2) ELSE 0
      frac == Slice(s, n1 + 2, IF n2 > 3 THEN 3 ELSE n2)
      milli == IntOf(frac) * (CASE Len(frac) = 0 -> 0 [] Len(frac) = 1 -> 100
                                [] Len(frac) = 2 -> 10 [] OTHER -> 1)
  IN IF n1 = 0 /\ n2 = 0 THEN NaN
     ELSE Num(IntOf(Slice(s, 1, n1)) * 1000 + milli)

\* ------------------------------------------------------------------------
\* parsers.ts: parsePingStats
\* ------------------------------------------------------------------------
LossLit == <<"%", " ", "packet", " ", "loss">>

RttLit == <<"round", "-", "trip", " ", "min", "/", "avg", "/", "max", "/", "stddev", " ", "=", " ">>

\* /([\d.]+)% packet loss/ : the capture of the leftmost match, or Null
LossMatch(output) ==
  LET ks == {k \in 2..Len(output) : HasAt(output, k, LossLit) /\ IsNumCh(output[k - 1])}
      k == Min(ks)
      n == Max({m \in 1..(k - 1) : \A j \in (k - m)..(k - 1) : IsNumCh(output[j])})
  IN IF ks = {} THEN Null ELSE Str(Slice(output, k - n, n))

\* the four captures of the rtt pattern with its literal at index k, or Null
RttAt(output, k) ==
  LET pa == k + Len(RttLit)
      a == NumRun(output, pa)
      pb == pa + a + 1
      b == NumRun(output, pb)
      pc3 == pb + b + 1
      c == NumRun(output, pc3)
      pd == pc3 + c + 1
      d == NumRun(output, pd)
  IN IF /\ HasAt(output, k, RttLit)
        /\ a > 0 /\ HasAt(output, pa + a, <<"/">>)
        /\ b > 0 /\ HasAt(output, pb + b, <<"/">>)
        /\ c > 0 /\ HasAt(output, pc3 + c, <<"/">>)
        /\ d > 0 /\ HasAt(output, pd + d, <<" ", "ms">>)
     THEN Obj(<<Slice(output, pa, a), Slice(output, pb, b),
                Slice(output, pc3, c), Slice(output, pd, d)>>)
     ELSE Null

\* /round-trip min\/avg\/max\/stddev = ([\d.]+)\/([\d.]+)\/([\d.]+)\/([\d.]+) ms/
RttMatch(output) ==
  LET ks == {k \in 1..Len(output) : RttAt(output, k).t # "null"}
  IN IF ks = {} THEN Null ELSE RttAt(output, Min(ks))

parsePingStats(output) ==
  With(LossMatch(output), LAMBDA lossMatch :
  With(RttMatch(output), LAMBDA rttMatch :
     [avgMs |-> IF rttMatch.t # "null" THEN ParseFloat(rttMatch.o[2]) ELSE Null,
      jitterMs |-> IF rttMatch.t # "null" THEN ParseFloat(rttMatch.o[4]) ELSE Null,
      lossPct |-> IF lossMatch.t # "null" THEN ParseFloat(lossMatch.s) ELSE Null]))

\* ------------------------------------------------------------------------
\* parsers.ts: parseAirportOutput
\* ------------------------------------------------------------------------
RECURSIVE AirportData(_)
\* the loop over the lines: the [key, value] entries in input order
AirportData(lines) ==
  IF lines = <<>> THEN <<>>
  ELSE LET line == lines[1]
           pieces == Split(line, ":")
           key == Trim(pieces[1])
           value == Trim(Join(Tail(pieces), ":"))
       IN (IF Len(pieces) < 2 \/ key = <<>> THEN <<>>
           ELSE <<[key |-> key, value |-> value]>>) \o AirportData(Tail(lines))

\* data[name]: the value of the last entry with that key, or Undefined
Lookup(data, name) ==
  LET hits == {i \in 1..Len(data) : data[i].key = <<name>>}
  IN IF hits = {} THEN Undefined ELSE Str(data[Max(hits)].value)

Band5 == <<"5", " ", "GHz">>

Band24 == <<"2", ".", "4", " ", "GHz">>

parseAirportOutput(output) ==
  LET data == AirportData(Split(output, "\n"))
      ParseField(name) ==
        IF Truthy(Lookup(data, name)) THEN ParseInt(Lookup(data, name).s) ELSE Null
      channelValue == IF Truthy(Lookup(data, "channel"))
                      THEN Str(Split(Lookup(data, "channel").s, ",")[1]) ELSE Null
      channel == IF Truthy(channelValue) THEN ParseInt(channelValue.s) ELSE Null
      band == IF Truthy(channel)
              THEN (IF channel.n > 14 THEN Str(Band5) ELSE Str(Band24)) ELSE Null
      linkRate == ParseField("lastTxRate")
  IN [ssid |-> Coalesce(Lookup(data, "SSID"), Null),
      bssid |-> Coalesce(Lookup(data, "BSSID"), Null),
      signalDbm |-> ParseField("agrCtlRSSI"),
      noiseDbm |-> ParseField("agrCtlNoise"),
      channel |-> channel,
      band |-> band,
      linkRateMbps |-> linkRate]

\* ------------------------------------------------------------------------
\* parsers.ts: parseSystemProfilerOutput
\* ------------------------------------------------------------------------
CniLit == <<"Current", " ", "Network", " ", "Information", ":">>

\* /Current Network Information:\s*\n\s{12}(.+):/ : the capture, or Null.
\* m is the length \s* takes (greedy), r the length (.+) takes (greedy).
SsidAt(output, k) ==
  LET p0 == k + Len(CniLit)
      ms == {m \in 0..(Len(output) - p0) :
               /\ \A j \in p0..(p0 + m - 1) : IsSpace(output[j])
               /\ output[p0 + m] = "\n"
               /\ p0 + m + 12 <= Len(output)
               /\ \A j \in (p0 + m + 1)..(p0 + m + 12) : IsSpace(output[j])
               /\ \E r \in 1..LineRun(output, p0 + m + 13) :
                    HasAt(output, p0 + m + 13 + r, <<":">>)}
      m == Max(ms)
      p == p0 + m + 13
      r == Max({x \in 1..LineRun(output, p) : HasAt(output, p + x, <<":">>)})
  IN IF HasAt(output, k, CniLit) /\ ms # {} THEN Str(Slice(output, p, r)) ELSE Null

SsidMatch(output) ==
  LET ks == {k \in 1..Len(output) : SsidAt(output, k).t # "null"}
  IN IF ks = {} THEN Null ELSE SsidAt(output, Min(ks))

\* the length of -?\d+ at index i (0 when it does not match)
SignedRun(s, i) ==
  IF HasAt(s, i, <<"-">>)
  THEN (IF DigitRun(s, i + 1) > 0 THEN 1 + DigitRun(s, i + 1) ELSE 0)
  ELSE DigitRun(s, i)

SignalLit == <<"Signal", " ", "/", " ", "Noise", ":", " ">>

DbmSlashLit == <<" ", "dBm", " ", "/", " ">>

\* /Signal \/ Noise: (-?\d+) dBm \/ (-?\d+) dBm/ : the two captures, or Null
SignalAt(output, k) ==
  LET pa == k + Len(SignalLit)
      a == SignedRun(output, pa)
      pb == pa + a + Len(DbmSlashLit)
      b == SignedRun(output, pb)
  IN IF /\ HasAt(output, k, SignalLit)
        /\ a > 0 /\ HasAt(output, pa + a, DbmSlashLit)
        /\ b > 0 /\ HasAt(output, pb + b, <<" ", "dBm">>)
     THEN Obj(<<Slice(output, pa, a), Slice(output, pb, b)>>)
     ELSE Null

SignalMatch(output) ==
  LET ks == {k \in 1..Len(output) : SignalAt(output, k).t # "null"}
  IN IF ks = {} THEN Null ELSE SignalAt(output, Min(ks))

ChannelLit == <<"Channel", ":", " ">>

\* /Channel: (\d+) \(([^)]+)\)/ : the two captures, or Null
ChannelAt(output, k) ==
  LET pa == k + Len(ChannelLit)
      a == DigitRun(output, pa)
      pb == pa + a + 2
      b == IF pb > Len(output) THEN 0
           ELSE Max({n \in 0..(Len(output) + 1 - pb) :
                       \A j \in pb..(pb + n - 1) : output[j] # ")"})
  IN IF /\ HasAt(output, k, ChannelLit)
        /\ a > 0 /\ HasAt(output, pa + a, <<" ", "(">>)
        /\ b > 0 /\ HasAt(output, pb + b, <<")">>)
     THEN Obj(<<Slice(output, pa, a), Slice(output, pb, b)>>)
     ELSE Null

ChannelMatch(output) ==
  LET ks == {k \in 1..Len(output) : ChannelAt(output, k).t # "null"}
  IN IF ks = {} THEN Null ELSE ChannelAt(output, Min(ks))

\* /(\d+\.?\d*)GHz/i at index i: the capture, or Null
GHzAt(s, i) ==
  LET d1 == DigitRun(s, i)
      d2 == DigitRun(s, i + d1 + 1)
      IsGHz(j) == j <= Len(s) /\ s[j] \in {"GHz", "ghz", "Ghz", "GHZ"}
  IN IF d1 > 0 /\ HasAt(s, i + d1, <<".">>) /\ IsGHz(i + d1 + 1 + d2)
     THEN Str(Slice(s, i, d1 + 1 + d2))
     ELSE IF d1 > 0 /\ IsGHz(i + d1) THEN Str(Slice(s, i, d1))
     ELSE Null

BandMatch(s) ==
  LET is == {i \in 1..Len(s) : GHzAt(s, i).t # "null"}
  IN IF is = {} THEN Null ELSE GHzAt(s, Min(is))

TransmitLit == <<"Transmit", " ", "Rate", ":", " ">>

\* /Transmit Rate: (\d+)/ : the capture, or Null
TransmitMatch(output) ==
  LET ks == {k \in 1..Len(output) :
               HasAt(output, k, TransmitLit) /\ DigitRun(output, k + Len(TransmitLit)) > 0}
      p == Min(ks) + Len(TransmitLit)
  IN IF ks = {} THEN Null ELSE Str(Slice(output, p, DigitRun(output, p)))

parseSystemProfilerOutput(output) ==
  LET ssidMatch == SsidMatch(output)
      signalMatch == SignalMatch(output)
      channelMatch == ChannelMatch(output)
      transmitMatch == TransmitMatch(output)
      channel == IF channelMatch.t # "null" THEN ParseInt(channelMatch.o[1]) ELSE Null
      bandMatch == IF channelMatch.t # "null" THEN BandMatch(channelMatch.o[2]) ELSE Null
      band == IF bandMatch.t # "null" THEN Str(bandMatch.s \o <<" ", "GHz">>) ELSE Null
  IN [ssid |-> IF ssidMatch.t # "null" THEN Str(Trim(ssidMatch.s)) ELSE Null,
      bssid |-> Null,
      signalDbm |-> IF signalMatch.t # "null" THEN ParseInt(signalMatch.o[1]) ELSE Null,
      noiseDbm |-> IF signalMatch.t # "null" THEN ParseInt(signalMatch.o[2]) ELSE Null,
      channel |-> channel,
      band |-> band,
      linkRateMbps |-> IF transmitMatch.t # "null" THEN ParseInt(transmitMatch.s) ELSE Null]

\* ------------------------------------------------------------------------
\* collector.ts: the Process Runner
\* ------------------------------------------------------------------------
\* What execFileAsync does: resolve with stdout and stderr, or reject with an
\* error that may carry stdout, stderr and a message.
ExecOk(stdout) == [failed |-> FALSE, stdout |-> Str(stdout), stderr |-> Str(<<>>)]

ExecErr(stdout, stderr, message) ==
  [failed |-> TRUE, stdout |-> stdout, stderr |-> stderr, message |-> message]

CommandFailedLit == <<"command", " ", "failed">>

runCommand(exec) ==
  IF ~exec.failed
  THEN [stdout |-> Coalesce(exec.stdout, Str(<<>>)).s,
        stderr |-> Coalesce(exec.stderr, Str(<<>>)).s,
        error |-> Null]
  ELSE [stdout |-> Coalesce(exec.stdout, Str(<<>>)).s,
        stderr |-> Coalesce(exec.stderr, Coalesce(exec.message, Str(CommandFailedLit))).s,
        error |-> Obj(exec.message)]

\* ------------------------------------------------------------------------
\* collector.ts: getDefaultGateway, getDnsServer (after runCommand returns)
\* ------------------------------------------------------------------------
GatewayLit == <<"gateway", ":", " ">>

\* /gateway: (.+)/ : the capture of the leftmost match, or Null
GatewayMatch(stdout) ==
  LET ks == {k \in 1..Len(stdout) :
               HasAt(stdout, k, GatewayLit) /\ LineRun(stdout, k + Len(GatewayLit)) > 0}
      p == Min(ks) + Len(GatewayLit)
  IN IF ks = {} THEN Null ELSE Str(Slice(stdout, p, LineRun(stdout, p)))

getDefaultGateway(result) ==
  LET match == GatewayMatch(result.stdout)
      gateway == IF match.t # "null" THEN Str(Trim(match.s)) ELSE Null
  IN IF ~Truthy(gateway)
     THEN [ret |-> Null, logs |-> {"collect.gateway.error"}]
     ELSE [ret |-> gateway, logs |-> {"collect.gateway.success"}]

NameserverLit == <<"nameserver", "[", "0", "]", " ", ":", " ">>

\* /nameserver\[0\] : ([\d.]+)/ : the capture of the leftmost match, or Null
NameserverMatch(stdout) ==
  LET ks == {k \in 1..Len(stdout) :
               HasAt(stdout, k, NameserverLit) /\ NumRun(stdout, k + Len(NameserverLit)) > 0}
      p == Min(ks) + Len(NameserverLit)
  IN IF ks = {} THEN Null ELSE Str(Slice(stdout, p, NumRun(stdout, p)))

getDnsServer(result) ==
  LET match == NameserverMatch(result.stdout)
      server == IF match.t # "null" THEN Str(match.s) ELSE Null
  IN IF ~Truthy(server)
     THEN [ret |-> Null, logs |-> {"collect.dns-server.error"}]
     ELSE [ret |-> server, logs |-> {"collect.dns-server.success"}]

\* ------------------------------------------------------------------------
\* collector.ts: pingHost (after runCommand returns)
\* ------------------------------------------------------------------------
PingFailedLit == <<"ping", " ", "failed">>

\* pingHost without the "ping failed" default of its error branch
pingHost_NoDefaultError(host, count, result) ==
  With(parsePingStats(result.stdout), LAMBDA stats :
     IF ~Truthy(stats.avgMs) /\ Truthy(result.error)
     THEN [ret |-> [target |-> host, avgMs |-> Null, jitterMs |-> Null, lossPct |-> Null,
                    samples |-> count, error |-> Str(result.stderr)],
           logs |-> {"collect.ping.error"}]
     ELSE [ret |-> [target |-> host, avgMs |-> stats.avgMs, jitterMs |-> stats.jitterMs,
                    lossPct |-> stats.lossPct, samples |-> count,
                    error |-> IF Truthy(result.error) THEN Str(result.stderr) ELSE Null],
           logs |-> {"collect.ping.success"}])

pingHost(host, count, result) ==
  With(parsePingStats(result.stdout), LAMBDA stats :
     IF ~Truthy(stats.avgMs) /\ Truthy(result.error)
     THEN [ret |-> [target |-> host, avgMs |-> Null, jitterMs |-> Null, lossPct |-> Null,
                    samples |-> count,
                    error |-> OrElse(Str(result.stderr), Str(PingFailedLit))],
           logs |-> {"collect.ping.error"}]
     ELSE [ret |-> [target |-> host, avgMs |-> stats.avgMs, jitterMs |-> stats.jitterMs,
                    lossPct |-> stats.lossPct, samples |-> count,
                    error |-> IF Truthy(result.error) THEN Str(result.stderr) ELSE Null],
           logs |-> {"collect.ping.success"}])

\* ------------------------------------------------------------------------
\* collector.ts: dnsLookup (after runCommand returns)
\* ------------------------------------------------------------------------
QueryTimeLit == <<"Query", " ", "time", ":", " ">>

\* /Query time: (\d+) msec/ : the capture of the leftmost match, or Null
QueryTimeMatch(stdout) ==
  LET Ok(k) == LET p == k + Len(QueryTimeLit)
               IN /\ HasAt(stdout, k, QueryTimeLit)
                  /\ DigitRun(stdout, p) > 0
                  /\ HasAt(stdout, p + DigitRun(stdout, p), <<" ", "msec">>)
      ks == {k \in 1..Len(stdout) : Ok(k)}
      p == Min(ks) + Len(QueryTimeLit)
  IN IF ks = {} THEN Null ELSE Str(Slice(stdout, p, DigitRun(stdout, p)))

DnsLookupFailedLit == <<"dns", " ", "lookup", " ", "failed">>

\* the argument list handed to dig
dnsLookupArgs(host, server) ==
  <<<<"+", "stats">>, <<"+", "tries", "=", "1">>, <<"+", "time", "=", "2">>, host>>
    \o (IF Truthy(server) THEN <<<<"@">> \o server.s>> ELSE <<>>)

dnsLookup(host, server, result) ==
  With(QueryTimeMatch(result.stdout), LAMBDA match :
  With(IF match.t # "null" THEN ParseInt(match.s) ELSE Null, LAMBDA lookupMs :
     IF lookupMs = Null
     THEN [ret |-> [host |-> host, server |-> server, lookupMs |-> Null,
                    error |-> OrElse(Str(result.stderr), Str(DnsLookupFailedLit))],
           logs |-> {"collect.dns-lookup.error"}]
     ELSE [ret |-> [host |-> host, server |-> server, lookupMs |-> lookupMs,
                    error |-> IF Truthy(result.error) THEN Str(result.stderr) ELSE Null],
           logs |-> {"collect.dns-lookup.success"}]))

\* ------------------------------------------------------------------------
\* JSON.parse, for flat documents: null, true, false, a non-negative
\* integer, a string without escapes, commas or colons, [], or an object
\* whose keys are single words and whose members are such scalars.  Anything else is a SyntaxError.
\* ------------------------------------------------------------------------
SyntaxError == [t |-> "syntaxerror"]

JSONScalar(v) ==
  CASE v = <<"null">> -> Null
    [] v = <<"true">> -> Bool(TRUE)
    [] v = <<"false">> -> Bool(FALSE)
    [] v = <<"[", "]">> -> [t |-> "array"]
    [] /\ Len(v) >= 2 /\ v[1] = "\"" /\ v[Len(v)] = "\""
       /\ \A i \in 2..(Len(v) - 1) : v[i] \notin {"\"", "\\", "\n"} -> Str(SubSeq(v, 2, Len(v) - 1))
    [] /\ Len(v) > 0
       /\ DigitRun(v, 1) = Len(v)
       /\ (Len(v) = 1 \/ v[1] # "0") -> Num(IntOf(v))
    [] OTHER -> SyntaxError

\* one member of an object: "key" : scalar
JSONMember(m) ==
  LET parts == Split(m, ":")
      key == JSONScalar(Trim(parts[1]))
      value == JSONScalar(Trim(parts[2]))
  IN IF Len(parts) = 2 /\ key.t = "str" /\ Len(key.s) = 1 /\ value.t # "syntaxerror"
     THEN [key |-> key.s[1], value |-> value]
     ELSE SyntaxError

JSONParse(text) ==
  With(Trim(text), LAMBDA v :
     IF Len(v) >= 2 /\ v[1] = "{" /\ v[Len(v)] = "}"
     THEN With(Trim(SubSeq(v, 2, Len(v) - 1)), LAMBDA inner :
          IF inner = <<>> THEN Obj(<<>>)
          ELSE With(Split(inner, ","), LAMBDA parts :
               With([i \in 1..Len(parts) |-> JSONMember(parts[i])], LAMBDA members :
                  IF \E i \in 1..Len(members) : members[i] = SyntaxError
                  THEN SyntaxError
                  ELSE Obj([k \in {members[i].key : i \in 1..Len(members)} |->
                              members[Max({i \in 1..Len(members) :
                                             members[i].key = k})].value]))))
     ELSE JSONScalar(v))

\* v[name] for a parsed value other than null
Get(v, name) ==
  IF v.t = "obj" /\ v.o # <<>> /\ name \in DOMAIN v.o THEN v.o[name] ELSE Undefined

\* Math.round(x / 1_000_000); a non-number divides to NaN
RoundMbps(x) == IF x.t = "num" THEN Num((x.n + 500000) \div 1000000) ELSE NaN

\* ------------------------------------------------------------------------
\* collector.ts: runSpeedTest (after runCommand returns)
\* ------------------------------------------------------------------------
NetworkQualityFailedLit == <<"networkQuality", " ", "failed">>

ParseFailedLit == <<"networkQuality", " ", "output", " ", "parse", " ", "failed">>

SpeedTestError(error) ==
  [downloadMbps |-> Null, uploadMbps |-> Null, baseRttMs |-> Null,
   responsivenessMs |-> Null, interfaceName |-> Null, endpoint |-> Null,
   raw |-> Null, error |-> error]

\* threw: the property read on a parsed null raises a TypeError, which
\* rejects the promise runSpeedTest returned
runSpeedTest(result) ==
  With(JSONParse(result.stdout), LAMBDA parsed :
     IF Truthy(result.error)
     THEN [threw |-> FALSE,
           ret |-> SpeedTestError(OrElse(Str(result.stderr), Str(NetworkQualityFailedLit))),
           logs |-> {"collect.speedtest.error"}]
     ELSE IF parsed = SyntaxError
     THEN [threw |-> FALSE,
           ret |-> SpeedTestError(Str(ParseFailedLit)),
           logs |-> {"collect.speedtest.parse-error"}]
     ELSE IF parsed = Null
     THEN [threw |-> TRUE, ret |-> Null, logs |-> {}]
     ELSE [threw |-> FALSE,
           ret |-> [downloadMbps |-> IF Truthy(Get(parsed, "dl_throughput"))
                                     THEN RoundMbps(Get(parsed, "dl_throughput")) ELSE Null,
                    uploadMbps |-> IF Truthy(Get(parsed, "ul_throughput"))
                                   THEN RoundMbps(Get(parsed, "ul_throughput")) ELSE Null,
                    baseRttMs |-> Coalesce(Get(parsed, "base_rtt"), Null),
                    responsivenessMs |-> Coalesce(Get(parsed, "responsiveness"), Null),
                    interfaceName |-> Coalesce(Get(parsed, "interface_name"), Null),
                    endpoint |-> Coalesce(Get(parsed, "test_endpoint"), Null),
                    raw |-> Obj([startDate |-> Coalesce(Get(parsed, "start_date"), Null),
                                 endDate |-> Coalesce(Get(parsed, "end_date"), Null),
                                 osVersion |-> Coalesce(Get(parsed, "os_version"), Null)]),
                    error |-> Null],
           logs |-> {"collect.speedtest.success"}])

\* ------------------------------------------------------------------------
\* What the external utilities may print
\* ------------------------------------------------------------------------
AirportText ==
  <<"agrCtlRSSI", ":", " ", "-", "5", "3", "\n", "channel", ":", " ", "4",
    "8", ",", "1", "\n", "SSID", ":", " ", "MyWifi">>

AirportOffText ==
  <<"AirPort", ":", " ", "Off">>

ProfilerText ==
  <<"Current", " ", "Network", " ", "Information", ":", "\n", " ", " ", " ",
    " ", " ", " ", " ", " ", " ", " ", " ", " ", "MyHome", ":", "\n", " ",
    " ", "Channel", ":", " ", "4", "8", " ", "(", "5", "GHz", ",", " ", "8",
    "0", "MHz", ")", "\n", " ", " ", "Signal", " ", "/", " ", "Noise", ":",
    " ", "-", "5", "1", " ", "dBm", " ", "/", " ", "-", "9", "1", " ", "dBm",
    "\n", " ", " ", "Transmit", " ", "Rate", ":", " ", "9", "6", "0">>

AirportChannel6Text ==
  <<"SSID", ":", " ", "Cafe", "\n", "channel", ":", " ", "6">>

AirportChannel0Text ==
  <<"channel", ":", " ", "0">>

AirportChannelAutoText ==
  <<"channel", ":", " ", "auto">>

ProfilerChannel6Text ==
  <<"Channel", ":", " ", "6", " ", "(", "2", "GHz", ",", " ", "2", "0",
    "MHz", ")">>

ProfilerChannel11Text ==
  <<"Channel", ":", " ", "1", "1", " ", "(", "2", ".", "4", "GHz", ")">>

ProfilerChannel37Text ==
  <<"Channel", ":", " ", "3", "7", " ", "(", "6", "GHz", ",", " ", "1",
    "6", "0", "MHz", ")">>

ProfilerChannelWidthText ==
  <<"Channel", ":", " ", "3", "6", " ", "(", "8", "0", "MHz", ")">>

RouteText ==
  <<" ", " ", "gateway", ":", " ", "1", "0", ".", "0", ".", "0", ".", "1",
    "\n">>

RouteBlankText ==
  <<"gateway", ":", " ", " ", "\n">>

ScutilText ==
  <<"nameserver", "[", "0", "]", " ", ":", " ", "1", "0", ".", "0", ".", "0",
    ".", "1", "\n">>

PingFullText ==
  <<"0", ".", "0", "%", " ", "packet", " ", "loss", "\n", "round", "-",
    "trip", " ", "min", "/", "avg", "/", "max", "/", "stddev", " ", "=", " ",
    "9", ".", "1", "/", "1", "0", ".", "4", "5", "6", "/", "1", "1", "/",
    "0", ".", "9", "8", "7", " ", "ms">>

PingLostText ==
  <<"1", "0", "0", ".", "0", "%", " ", "packet", " ", "loss">>

PingZeroText ==
  <<"0", "%", " ", "packet", " ", "loss", "\n", "round", "-", "trip", " ",
    "min", "/", "avg", "/", "max", "/", "stddev", " ", "=", " ", "0", "/",
    "0", ".", "0", "0", "0", "/", "0", "/", "0", ".", "0", " ", "ms">>

DigText ==
  <<";", ";", " ", "Query", " ", "time", ":", " ", "2", "3", " ", "msec",
    "\n">>

SpeedFullText ==
  <<"{", "\"", "dl_throughput", "\"", ":", "0", ",", " ", "\"",
    "ul_throughput", "\"", ":", "9", "4", "5", "0", "0", "0", "0", "0", ",",
    " ", "\"", "base_rtt", "\"", ":", "1", "2", "}">>

SpeedNullText ==
  <<"null">>

SpeedNumberText ==
  <<"5">>

SpeedGarbageText ==
  <<"<", "html", ">">>

PingNoLossText ==
  <<"round", "-", "trip", " ", "min", "/", "avg", "/", "max", "/",
    "stddev", " ", "=", " ", "9", "/", "1", "0", "/", "1", "1", "/", "1",
    " ", "ms">>

PingNoRttText ==
  <<"0", ".", "0", "%", " ", "packet", " ", "loss">>

DigNoTimeText ==
  <<"Query", " ", "time", ":", " ", "msec">>

SpeedEmptyObjectText ==
  <<"{", "}">>

SpeedArrayText ==
  <<"[", "]">>

RouterHostText ==
  <<"1", "9", "2", ".", "1", "6", "8", ".", "1", ".", "1">>

InternetHostText ==
  <<"1", ".", "1", ".", "1", ".", "1">>

DnsHostText ==
  <<"cloudflare", ".", "com">>

StderrText ==
  <<"timeout">>

ErrMessageText ==
  <<"Command", " ", "failed">>

\* ------------------------------------------------------------------------
\* The outcomes execFile may have, per utility
\* ------------------------------------------------------------------------
ErrMessage == Str(ErrMessageText)

StderrCases == {Undefined, Str(<<>>), Str(StderrText)}

\* every way a utility that printed one of texts may end
ExecCases(texts) ==
  {ExecOk(t) : t \in texts}
    \cup {ExecErr(Str(t), se, ErrMessage) : t \in texts, se \in StderrCases}

\* the outcomes the end-to-end specification draws from
AirportExecs ==
  {ExecOk(AirportText), ExecOk(AirportOffText),
   ExecErr(Str(AirportText), Str(StderrText), ErrMessage)}

ProfilerExecs ==
  {ExecOk(ProfilerText), ExecErr(Str(ProfilerText), Str(<<>>), ErrMessage)}

RouteExecs ==
  {ExecOk(RouteText), ExecOk(RouteBlankText),
   ExecErr(Undefined, Undefined, ErrMessage)}

ScutilExecs ==
  {ExecOk(ScutilText), ExecErr(Str(<<>>), Str(StderrText), ErrMessage)}

PingExecs ==
  {ExecOk(PingFullText), ExecOk(<<>>),
   ExecErr(Str(PingLostText), Str(StderrText), ErrMessage)}

DigExecs ==
  {ExecOk(DigText), ExecErr(Str(<<>>), Str(<<>>), ErrMessage),
   ExecErr(Str(DigText), Str(<<>>), ErrMessage)}

SpeedExecs ==
  {ExecOk(SpeedFullText), ExecOk(SpeedNullText),
   ExecErr(Str(<<>>), Str(<<>>), ErrMessage)}

\* the outcomes the probe-level specification draws from
PingTexts ==
  {<<>>, PingFullText, PingLostText, PingZeroText, PingNoRttText, PingNoLossText}

PingCases == ExecCases(PingTexts)

AirportTexts ==
  {<<>>, AirportText, AirportOffText, AirportChannel6Text, AirportChannel0Text,
   AirportChannelAutoText}

ProfilerTexts ==
  {<<>>, ProfilerText, ProfilerChannel6Text, ProfilerChannel11Text,
   ProfilerChannel37Text, ProfilerChannelWidthText}

DigCases == ExecCases({<<>>, DigText, DigNoTimeText})

SpeedCases ==
  ExecCases({<<>>, SpeedFullText, SpeedNullText, SpeedNumberText,
             SpeedGarbageText, SpeedEmptyObjectText, SpeedArrayText})

\* ------------------------------------------------------------------------
\* State
\* ------------------------------------------------------------------------
VARIABLES
  options,     \* the parsed command line (Options)
  pc,          \* where main is: init, access, airport, profiler, gateway,
               \*   dnsServer, join, done, crashed, usage
  access,      \* the existence check of AIRPORT_PATH: none, pending, ok, missing
  procs,       \* per probe, its external process: idle, running, exited
  spawned,     \* the probes in the order their processes were spawned
  wifi,        \* main's const wifi
  gateway,     \* main's const gateway
  dnsServer,   \* main's const dnsServer
  promises,    \* the four promises handed to Promise.all
  logs,        \* the messages of the events written by log
  output,      \* the report written to stdout
  hadError,    \* main's hadError
  exitCode,    \* the exit status of the process
  call         \* the last direct call of a probe function, with what it returned

mainVars == <<options, pc, access, procs, spawned, wifi, gateway, dnsServer,
              promises, logs, output, hadError, exitCode>>

vars == <<mainVars, call>>

Probes == {"airport", "profiler", "gateway", "dnsServer",
           "routerPing", "internetPing", "dnsLookup", "speedtest"}

Slots == {"routerPing", "internetPing", "dnsLookup", "speedtest"}

AIRPORT_PATH == "/System/Library/PrivateFrameworks/Apple80211.framework/Versions/Current/Resources/airport"

Cur ==
  [options |-> options, pc |-> pc, access |-> access, procs |-> procs,
   spawned |-> spawned, wifi |-> wifi, gateway |-> gateway,
   dnsServer |-> dnsServer, promises |-> promises, logs |-> logs,
   output |-> output, hadError |-> hadError, exitCode |-> exitCode]

Assign(s) ==
  /\ options' = s.options /\ pc' = s.pc /\ access' = s.access
  /\ procs' = s.procs /\ spawned' = s.spawned /\ wifi' = s.wifi
  /\ gateway' = s.gateway /\ dnsServer' = s.dnsServer
  /\ promises' = s.promises /\ logs' = s.logs /\ output' = s.output
  /\ hadError' = s.hadError /\ exitCode' = s.exitCode
  /\ call' = call

\* log(level, message, data)
Log(s, messages) == [s EXCEPT !.logs = @ \cup messages]

\* runCommand up to its await: the process is running
Spawn(s, probe, command, args) ==
  [s EXCEPT !.procs[probe] = [status |-> "running", command |-> command, args |-> args],
            !.spawned = Append(@, probe)]

\* runCommand after its await: the process has exited with this result
Exited(s, probe, result) ==
  [s EXCEPT !.procs[probe] = [status |-> "exited", command |-> @.command,
                              args |-> @.args, result |-> result]]

RECURSIVE ToStr(_)
\* String(n) for n >= 0
ToStr(n) ==
  LET d == CHOOSE c \in Digits : DigitVal(c) = n % 10
  IN IF n < 10 THEN <<d>> ELSE ToStr(n \div 10) \o <<d>>

\* ------------------------------------------------------------------------
\* cli.ts: main, up to the first await
\* ------------------------------------------------------------------------
Samples == {NaN} \cup {Num(n) : n \in 0..MaxSamples}

OptionSet ==
  [samples : Samples,
   internetHost : {InternetHostText},
   routerHost : {Null, Str(<<>>), Str(RouterHostText)},
   dnsHost : {DnsHostText},
   speedtest : BOOLEAN]

\* the options parseArgs starts from
DefaultOptions ==
  [samples |-> Num(12), internetHost |-> InternetHostText, routerHost |-> Null,
   dnsHost |-> DnsHostText, speedtest |-> FALSE]

NoCall == [fn |-> "none"]

InitMain(opts) ==
  /\ options \in opts
  /\ pc = "init"
  /\ access = "none"
  /\ procs = [p \in Probes |-> [status |-> "idle"]]
  /\ spawned = <<>>
  /\ wifi = Undefined
  /\ gateway = Undefined
  /\ dnsServer = Undefined
  /\ promises = [k \in Slots |-> [state |-> "none"]]
  /\ logs = {}
  /\ output = Undefined
  /\ hadError = Undefined
  /\ exitCode = Undefined
  /\ call = NoCall

Init == InitMain(OptionSet)

\* !Number.isFinite(options.samples) || options.samples <= 0
SamplesInvalid(samples) == samples.t # "num" \/ samples.n <= 0

\* MainStart starting the gateway probe together with the Wi-Fi probe
MainStart_EagerGateway(s) ==
  IF SamplesInvalid(s.options.samples)
  THEN [s EXCEPT !.pc = "usage", !.exitCode = Num(2)]
  ELSE [Spawn(Log(s, {"wifi-stats.start", "collect.airport.start", "collect.gateway.start"}),
              "gateway", "route", <<<<"-", "n">>, <<"get">>, <<"default">>>>)
          EXCEPT !.access = "pending", !.pc = "access"]

MainStart(s) ==
  IF SamplesInvalid(s.options.samples)
  THEN [s EXCEPT !.pc = "usage", !.exitCode = Num(2)]
  ELSE [Log(s, {"wifi-stats.start", "collect.airport.start"})
          EXCEPT !.access = "pending", !.pc = "access"]

\* ------------------------------------------------------------------------
\* cli.ts: main after Promise.all, and the handler of main().catch
\* ------------------------------------------------------------------------
\* x?.error
OptError(x) == IF x.t \in {"null", "undefined"} THEN Undefined ELSE x.o.error

ComputeHadError(s, routerPing, internetPing, dnsResult, speedtest) ==
  LET h1 == \/ ~Truthy(s.wifi) \/ ~Truthy(s.gateway) \/ ~Truthy(s.dnsServer)
            \/ ~Truthy(routerPing) \/ ~Truthy(internetPing) \/ ~Truthy(dnsResult)
      h2 == \/ Truthy(OptError(routerPing)) \/ Truthy(OptError(internetPing))
            \/ Truthy(OptError(dnsResult))
      h3 == s.options.speedtest /\ Truthy(OptError(speedtest))
  IN h1 \/ h2 \/ h3

MainFinish(s) ==
  LET routerPing == s.promises["routerPing"].value
      internetPing == s.promises["internetPing"].value
      dnsResult == s.promises["dnsLookup"].value
      speedtest == s.promises["speedtest"].value
      report ==
        [timestamp |-> "now",
         wifi |-> s.wifi,
         router |-> [gateway |-> s.gateway, ping |-> routerPing],
         internet |-> [target |-> s.options.internetHost, ping |-> internetPing],
         dns |-> [server |-> s.dnsServer,
                  source |-> IF Truthy(s.dnsServer) /\ Truthy(s.gateway)
                                /\ s.dnsServer = s.gateway
                             THEN "router" ELSE "system",
                  lookup |-> dnsResult],
         speedtest |-> speedtest,
         meta |-> [samples |-> s.options.samples, dnsHost |-> s.options.dnsHost,
                   speedtest |-> s.options.speedtest]]
      h == ComputeHadError(s, routerPing, internetPing, dnsResult, speedtest)
  IN [Log(s, {"wifi-stats.complete"})
        EXCEPT !.output = Obj(report), !.hadError = Bool(h),
               !.exitCode = Num(IF h THEN 1 ELSE 0), !.pc = "done"]

MainCatch(s) ==
  [Log(s, {"wifi-stats.crash"}) EXCEPT !.exitCode = Num(1), !.pc = "crashed"]

\* a promise of Promise.all fulfils: main resumes once all four have
Settle(s, slot, value) ==
  With([s EXCEPT !.promises[slot] = [state |-> "fulfilled", value |-> value]], LAMBDA s1 :
     IF \A k \in Slots : s1.promises[k].state = "fulfilled" THEN MainFinish(s1) ELSE s1)

\* a promise of Promise.all rejects: Promise.all, then main, reject at once
Reject(s, slot) ==
  MainCatch([s EXCEPT !.promises[slot] = [state |-> "rejected"]])

\* ------------------------------------------------------------------------
\* cli.ts: main between its awaits
\* ------------------------------------------------------------------------
\* Promise.all([...]): the four probes start in order, each up to its await
Dispatch(s) ==
  LET count == s.options.samples.n
      PingArgs(host) == <<<<"-", "n">>, <<"-", "c">>, ToStr(count), host>>
      s1 == IF Truthy(s.gateway)
            THEN [Spawn(Log(s, {"collect.ping.start"}), "routerPing", "ping",
                        PingArgs(s.gateway.s))
                    EXCEPT !.promises["routerPing"] = [state |-> "pending"]]
            ELSE [s EXCEPT !.promises["routerPing"] = [state |-> "fulfilled", value |-> Null]]
      s2 == [Spawn(Log(s1, {"collect.ping.start"}), "internetPing", "ping",
                   PingArgs(s.options.internetHost))
               EXCEPT !.promises["internetPing"] = [state |-> "pending"]]
      s3 == [Spawn(Log(s2, {"collect.dns-lookup.start"}), "dnsLookup", "dig",
                   dnsLookupArgs(s.options.dnsHost, s.dnsServer))
               EXCEPT !.promises["dnsLookup"] = [state |-> "pending"]]
      s4 == IF s.options.speedtest
            THEN [Spawn(Log(s3, {"collect.speedtest.start"}), "speedtest",
                        "networkQuality", <<<<"-", "c">>>>)
                    EXCEPT !.promises["speedtest"] = [state |-> "pending"]]
            ELSE [s3 EXCEPT !.promises["speedtest"] = [state |-> "fulfilled", value |-> Null]]
  IN [s4 EXCEPT !.pc = "join"]

\* const dnsServer = await getDnsServer(log), up to the await
StartDnsServer(s) ==
  [Spawn(Log(s, {"collect.dns-server.start"}), "dnsServer", "scutil", <<<<"-", "-", "dns">>>>)
     EXCEPT !.pc = "dnsServer"]

\* StartGateway ignoring --router-host: the gateway probe always runs
StartGateway_IgnoreOverride(s) ==
  [Spawn(Log(s, {"collect.gateway.start"}), "gateway", "route",
         <<<<"-", "n">>, <<"get">>, <<"default">>>>)
     EXCEPT !.pc = "gateway"]

\* const gateway = options.routerHost ?? (await getDefaultGateway(log))
StartGateway(s) ==
  IF s.options.routerHost.t \notin {"null", "undefined"}
  THEN StartDnsServer([s EXCEPT !.gateway = s.options.routerHost])
  ELSE [Spawn(Log(s, {"collect.gateway.start"}), "gateway", "route",
              <<<<"-", "n">>, <<"get">>, <<"default">>>>)
          EXCEPT !.pc = "gateway"]

\* getAirportInfo returned w
AfterWifi(s, w) == StartGateway([s EXCEPT !.wifi = w])

\* ------------------------------------------------------------------------
\* collector.ts: getAirportInfo
\* ------------------------------------------------------------------------
StartProfiler(s) ==
  [Spawn(Log(s, {"collect.system-profiler.start"}), "profiler", "system_profiler",
         <<<<"SPAirPortDataType">>, <<"-", "detailLevel">>, <<"basic">>>>)
     EXCEPT !.pc = "profiler"]

\* AccessDone invoking the primary tool although its path is missing
AccessDone_InvokeWhenMissing(s, ok) ==
  IF ok
  THEN [Spawn([s EXCEPT !.access = "ok"], "airport", AIRPORT_PATH, <<<<"-", "I">>>>)
          EXCEPT !.pc = "airport"]
  ELSE [Spawn(Log([s EXCEPT !.access = "missing"], {"collect.airport.missing"}),
              "airport", AIRPORT_PATH, <<<<"-", "I">>>>)
          EXCEPT !.pc = "airport"]

\* access(AIRPORT_PATH) settled
AccessDone(s, ok) ==
  IF ok
  THEN [Spawn([s EXCEPT !.access = "ok"], "airport", AIRPORT_PATH, <<<<"-", "I">>>>)
          EXCEPT !.pc = "airport"]
  ELSE StartProfiler(Log([s EXCEPT !.access = "missing"], {"collect.airport.missing"}))

\* runCommand(AIRPORT_PATH, ["-I"]) returned
AirportDone(s, result) ==
  IF ~Truthy(result.error)
  THEN AfterWifi(Log(Exited(s, "airport", result), {"collect.airport.success"}),
                 Obj(parseAirportOutput(result.stdout)))
  ELSE StartProfiler(Log(Exited(s, "airport", result), {"collect.airport.error"}))

\* ProfilerDone handing the fallback's stdout to the primary tool's parser
ProfilerDone_AirportParser(s, result) ==
  IF Truthy(result.error)
  THEN AfterWifi(Log(Exited(s, "profiler", result), {"collect.system-profiler.error"}), Null)
  ELSE AfterWifi(Log(Exited(s, "profiler", result), {"collect.system-profiler.success"}),
                 Obj(parseAirportOutput(result.stdout)))

\* runCommand("system_profiler", ...) returned
ProfilerDone(s, result) ==
  IF Truthy(result.error)
  THEN AfterWifi(Log(Exited(s, "profiler", result), {"collect.system-profiler.error"}), Null)
  ELSE AfterWifi(Log(Exited(s, "profiler", result), {"collect.system-profiler.success"}),
                 Obj(parseSystemProfilerOutput(result.stdout)))

\* ------------------------------------------------------------------------
\* The other probes, from the exit of their process on
\* ------------------------------------------------------------------------
GatewayDone(s, result) ==
  LET r == getDefaultGateway(result)
  IN StartDnsServer([Log(Exited(s, "gateway", result), r.logs) EXCEPT !.gateway = r.ret])

DnsServerDone(s, result) ==
  LET r == getDnsServer(result)
  IN Dispatch([Log(Exited(s, "dnsServer", result), r.logs) EXCEPT !.dnsServer = r.ret])

RouterPingDone(s, result) ==
  With(pingHost(s.gateway.s, s.options.samples.n, result), LAMBDA r :
     Settle(Log(Exited(s, "routerPing", result), r.logs), "routerPing", Obj(r.ret)))

InternetPingDone(s, result) ==
  With(pingHost(s.options.internetHost, s.options.samples.n, result), LAMBDA r :
     Settle(Log(Exited(s, "internetPing", result), r.logs), "internetPing", Obj(r.ret)))

DnsLookupDone(s, result) ==
  With(dnsLookup(s.options.dnsHost, s.dnsServer, result), LAMBDA r :
     Settle(Log(Exited(s, "dnsLookup", result), r.logs), "dnsLookup", Obj(r.ret)))

SpeedTestDone(s, result) ==
  With(runSpeedTest(result), LAMBDA r :
  With(Log(Exited(s, "speedtest", result), r.logs), LAMBDA s1 :
     IF r.threw THEN Reject(s1, "speedtest") ELSE Settle(s1, "speedtest", Obj(r.ret))))

\* ------------------------------------------------------------------------
\* Actions: one per callback of the event loop
\* ------------------------------------------------------------------------
Running(probe) == pc \notin {"done", "crashed", "usage"} /\ procs[probe].status = "running"

Start == pc = "init" /\ Assign(MainStart(Cur))

Access == pc = "access" /\ \E ok \in BOOLEAN : Assign(AccessDone(Cur, ok))

Airport == Running("airport") /\ \E e \in AirportExecs : Assign(AirportDone(Cur, runCommand(e)))

Profiler == Running("profiler") /\ \E e \in ProfilerExecs : Assign(ProfilerDone(Cur, runCommand(e)))

Gateway == Running("gateway") /\ \E e \in RouteExecs : Assign(GatewayDone(Cur, runCommand(e)))

DnsServer == Running("dnsServer") /\ \E e \in ScutilExecs : Assign(DnsServerDone(Cur, runCommand(e)))

RouterPing == Running("routerPing") /\ \E e \in PingExecs : Assign(RouterPingDone(Cur, runCommand(e)))

InternetPing == Running("internetPing") /\ \E e \in PingExecs : Assign(InternetPingDone(Cur, runCommand(e)))

DnsLookup == Running("dnsLookup") /\ \E e \in DigExecs : Assign(DnsLookupDone(Cur, runCommand(e)))

SpeedTest == Running("speedtest") /\ \E e \in SpeedExecs : Assign(SpeedTestDone(Cur, runCommand(e)))

Next ==
  \/ Start \/ Access \/ Airport \/ Profiler \/ Gateway \/ DnsServer
  \/ RouterPing \/ InternetPing \/ DnsLookup \/ SpeedTest

Spec == Init /\ [][Next]_vars

\* ------------------------------------------------------------------------
\* An external utility that never exits.  runCommand passes execFile only
\* { encoding: "utf8", ...options } and no caller passes options, so
\* execFile runs with its default timeout of 0: no timer is armed, and the
\* await in runCommand resumes only when the process itself exits.
\* ------------------------------------------------------------------------
NeverExits ==
  \E p \in Probes :
    /\ Running(p)
    /\ procs' = [procs EXCEPT ![p].status = "hung"]
    /\ UNCHANGED <<options, pc, access, spawned, wifi, gateway, dnsServer,
                   promises, logs, output, hadError, exitCode, call>>

NextHang == NeverExits \/ Next

\* the event loop runs a callback whenever one is ready
SpecHang == Init /\ [][NextHang]_vars /\ WF_vars(NextHang)

\* ------------------------------------------------------------------------
\* The probe functions called on their own, as a test with a fake runner
\* calls them: any host, any sample count, any process outcome
\* ------------------------------------------------------------------------
ProbeHosts == {InternetHostText, RouterHostText, DnsHostText}

ProbeServers == {Null, Str(RouterHostText)}

CallPingHost ==
  \E host \in ProbeHosts, count \in 1..MaxSamples, e \in PingCases :
    /\ call' = [fn |-> "pingHost", host |-> host, count |-> count,
                 result |-> runCommand(e),
                 ret |-> pingHost(host, count, runCommand(e)).ret,
                 logs |-> {"collect.ping.start"}
                            \cup pingHost(host, count, runCommand(e)).logs]
    /\ UNCHANGED mainVars

CallDnsLookup ==
  \E server \in ProbeServers, e \in DigCases :
    /\ call' = [fn |-> "dnsLookup", host |-> DnsHostText, server |-> server,
                 result |-> runCommand(e),
                 ret |-> dnsLookup(DnsHostText, server, runCommand(e)).ret,
                 logs |-> {"collect.dns-lookup.start"}
                            \cup dnsLookup(DnsHostText, server, runCommand(e)).logs]
    /\ UNCHANGED mainVars

CallRunSpeedTest ==
  \E e \in SpeedCases :
    /\ call' = [fn |-> "runSpeedTest", result |-> runCommand(e),
                 threw |-> runSpeedTest(runCommand(e)).threw,
                 ret |-> runSpeedTest(runCommand(e)).ret,
                 logs |-> {"collect.speedtest.start"}
                            \cup runSpeedTest(runCommand(e)).logs]
    /\ UNCHANGED mainVars

CallParseAirportOutput ==
  \E text \in AirportTexts :
    /\ call' = [fn |-> "parseAirportOutput", output |-> text,
                 ret |-> parseAirportOutput(text)]
    /\ UNCHANGED mainVars

CallParseSystemProfilerOutput ==
  \E text \in ProfilerTexts :
    /\ call' = [fn |-> "parseSystemProfilerOutput", output |-> text,
                 ret |-> parseSystemProfilerOutput(text)]
    /\ UNCHANGED mainVars

InitProbe == InitMain({DefaultOptions})

NextProbe ==
  \/ CallPingHost \/ CallDnsLookup \/ CallRunSpeedTest
  \/ CallParseAirportOutput \/ CallParseSystemProfilerOutput

SpecProbe == InitProbe /\ [][NextProbe]_vars

\* ------------------------------------------------------------------------
\* Vocabulary of the properties
\* ------------------------------------------------------------------------
Terminated == pc \in {"done", "crashed", "usage"}

Succeeded(p) == procs[p].status = "exited" /\ ~Truthy(procs[p].result.error)

NoMetric(stats) == stats.avgMs = Null /\ stats.jitterMs = Null /\ stats.lossPct = Null

NoSpeedMetric(r) ==
  /\ r.downloadMbps = Null /\ r.uploadMbps = Null
  /\ r.baseRttMs = Null /\ r.responsivenessMs = Null

\* ------------------------------------------------------------------------
\* C1
\* ------------------------------------------------------------------------
\* C1: whatever the external processes print and however they exit, no probe
\* promise rejects and main never reaches the crash handler.
C1_NoProbeRejects ==
  /\ pc # "crashed"
  /\ \A k \in Slots : promises[k].state # "rejected"

\* ------------------------------------------------------------------------
\* C2
\* ------------------------------------------------------------------------
\* a result that is null, or whose error field is not null
NullOrErrorCarrying(x) == x = Null \/ (x.t = "obj" /\ x.o.error # Null)

\* C2: once the report is built, hadError is true whenever wifi, the gateway
\* or the DNS server is null, a ping or the DNS lookup is null or carries an
\* error that is not null, or the requested speed test carries an error.
C2_HadErrorCoversEveryFailure ==
  pc = "done" =>
    ((\/ wifi = Null \/ gateway = Null \/ dnsServer = Null
      \/ NullOrErrorCarrying(output.o.router.ping)
      \/ NullOrErrorCarrying(output.o.internet.ping)
      \/ NullOrErrorCarrying(output.o.dns.lookup)
      \/ (options.speedtest /\ NullOrErrorCarrying(output.o.speedtest)))
     => hadError = Bool(TRUE))

\* ------------------------------------------------------------------------
\* C3
\* ------------------------------------------------------------------------
\* a ping outcome without error and without any metric
EmptyPing(x) == x.t = "obj" /\ x.o.error = Null /\ NoMetric(x.o)

\* C3: once the report is built, a ping outcome whose error is null and
\* whose metrics are all null makes hadError true.
C3_AllNullMetricsCountAsFailure ==
  pc = "done" =>
    ((EmptyPing(output.o.router.ping) \/ EmptyPing(output.o.internet.ping))
     => hadError = Bool(TRUE))

\* ------------------------------------------------------------------------
\* C4
\* ------------------------------------------------------------------------
ProcessFailed == call.fn # "none" /\ Truthy(call.result.error)

ProcessSucceeded == call.fn # "none" /\ ~Truthy(call.result.error)

\* C4: when the ping process failed and the parser found at least one metric
\* in its stdout, the outcome carries every parsed metric unchanged and an
\* error that is not null.
C4_PartialMetricsKept ==
  LET stats == parsePingStats(call.result.stdout)
  IN (call.fn = "pingHost" /\ ProcessFailed /\ ~NoMetric(stats)) =>
       /\ call.ret.avgMs = stats.avgMs
       /\ call.ret.jitterMs = stats.jitterMs
       /\ call.ret.lossPct = stats.lossPct
       /\ call.ret.error # Null

\* ------------------------------------------------------------------------
\* C5
\* ------------------------------------------------------------------------
NonEmptyString(v) == v.t = "str" /\ v.s # <<>>

PingTotalFailure ==
  /\ call.fn = "pingHost" /\ ProcessFailed
  /\ NoMetric(parsePingStats(call.result.stdout))

DnsTotalFailure ==
  /\ call.fn = "dnsLookup" /\ ProcessFailed
  /\ QueryTimeMatch(call.result.stdout) = Null

SpeedTotalFailure == call.fn = "runSpeedTest" /\ ProcessFailed

\* C5: when the process of pingHost, dnsLookup or runSpeedTest failed and no
\* metric could be parsed, the outcome has a non-empty error string, every
\* metric null, and the inputs it echoes are the ones the probe was given.
C5_TotalFailureOutcome ==
  /\ PingTotalFailure =>
       /\ NonEmptyString(call.ret.error)
       /\ NoMetric(call.ret)
       /\ call.ret.target = call.host
       /\ call.ret.samples = call.count
  /\ DnsTotalFailure =>
       /\ NonEmptyString(call.ret.error)
       /\ call.ret.lookupMs = Null
       /\ call.ret.host = call.host
       /\ call.ret.server = call.server
  /\ SpeedTotalFailure =>
       /\ ~call.threw
       /\ NonEmptyString(call.ret.error)
       /\ NoSpeedMetric(call.ret)

\* a ping whose process failed without any output, not even on stderr
C5_Witness ==
  /\ PingTotalFailure
  /\ call.result.stderr = <<>>
  /\ call.ret.error = Str(PingFailedLit)
  /\ call.ret.target = RouterHostText

\* ------------------------------------------------------------------------
\* C6
\* ------------------------------------------------------------------------
\* what getAirportInfo is expected to return, from what the two tools did
ExpectedWifi ==
  IF access = "ok" /\ Succeeded("airport")
  THEN Obj(parseAirportOutput(procs["airport"].result.stdout))
  ELSE IF Succeeded("profiler")
  THEN Obj(parseSystemProfilerOutput(procs["profiler"].result.stdout))
  ELSE Null

\* C6: wifi, in main and in the report, is the primary parser's output when
\* the primary tool exists and succeeds, the fallback parser's output of the
\* fallback's stdout when the primary is missing or errors and the fallback
\* succeeds (so not null), and null otherwise.
C6_WifiFollowsFallbackChain ==
  /\ wifi # Undefined => wifi = ExpectedWifi
  /\ pc = "done" => output.o.wifi = ExpectedWifi
  /\ (wifi # Undefined /\ access = "missing" /\ Succeeded("profiler")) => wifi # Null

C6_Witness ==
  /\ pc = "done"
  /\ access = "missing"
  /\ Succeeded("profiler")
  /\ output.o.wifi = Obj(parseSystemProfilerOutput(ProfilerText))
  /\ output.o.wifi.o.ssid = Str(<<"MyHome">>)

\* ------------------------------------------------------------------------
\* C7
\* ------------------------------------------------------------------------
\* C7: when the throughput process succeeded and its stdout does not decode
\* to an object, runSpeedTest returns the parse-failed error with every
\* metric null, and that error and its log event differ from those of a
\* failed process.
C7_UndecodableOutputIsParseFailure ==
  /\ (call.fn = "runSpeedTest" /\ ProcessSucceeded
        /\ JSONParse(call.result.stdout).t \notin {"obj", "array"}) =>
       /\ ~call.threw
       /\ call.ret.error = Str(ParseFailedLit)
       /\ NoSpeedMetric(call.ret)
       /\ "collect.speedtest.parse-error" \in call.logs
  /\ SpeedTotalFailure =>
       /\ call.ret.error # Str(ParseFailedLit)
       /\ "collect.speedtest.parse-error" \notin call.logs

\* ------------------------------------------------------------------------
\* C8
\* ------------------------------------------------------------------------
Dispatched(p) == procs[p].status # "idle"

\* C8: the router ping is dispatched only once the gateway is resolved (by
\* the gateway probe or by --router-host) and pings exactly that address;
\* the DNS lookup is dispatched only once the DNS-server probe has completed
\* and is given exactly the server it found, or none; without a gateway no
\* router ping is dispatched and router.ping is null.
C8_DependentProbesGetResolvedInputs ==
  /\ Dispatched("routerPing") =>
       /\ Truthy(gateway)
       /\ procs["routerPing"].args[4] = gateway.s
       /\ IF options.routerHost = Null
          THEN /\ procs["gateway"].status = "exited"
               /\ gateway = getDefaultGateway(procs["gateway"].result).ret
          ELSE /\ gateway = options.routerHost
               /\ ~Dispatched("gateway")
  /\ Dispatched("dnsLookup") =>
       /\ procs["dnsServer"].status = "exited"
       /\ dnsServer = getDnsServer(procs["dnsServer"].result).ret
       /\ IF dnsServer = Null
          THEN Len(procs["dnsLookup"].args) = 4
          ELSE /\ Len(procs["dnsLookup"].args) = 5
               /\ procs["dnsLookup"].args[5] = <<"@">> \o dnsServer.s
  /\ (pc \in {"join", "done", "crashed"} /\ ~Truthy(gateway)) =>
       /\ ~Dispatched("routerPing")
       /\ promises["routerPing"] = [state |-> "fulfilled", value |-> Null]
  /\ (pc = "done" /\ ~Truthy(gateway)) => output.o.router.ping = Null

C8_Witness ==
  /\ pc = "done"
  /\ options.routerHost = Null
  /\ procs["routerPing"].status = "exited"
  /\ procs["routerPing"].args[4] = Trim(GatewayMatch(RouteText).s)
  /\ Len(procs["dnsLookup"].args) = 5

\* ------------------------------------------------------------------------
\* C9
\* ------------------------------------------------------------------------
\* C9: the report, hadError and the end of the process come only after every
\* dispatched probe has completed.
C9_JoinBeforeCompletion ==
  (Terminated \/ output # Undefined \/ hadError # Undefined) =>
    \A p \in Probes : procs[p].status # "running"

\* ------------------------------------------------------------------------
\* C10
\* ------------------------------------------------------------------------
WifiPending == pc \in {"access", "airport", "profiler"}

\* C10 as stated: no probe waits for an unrelated one: while the Wi-Fi probe
\* is pending the gateway probe (unless overridden), the DNS-server probe
\* and the internet ping are already under way, and the router ping is under
\* way as soon as the gateway is resolved.
C10_NoWaitOnUnrelatedProbe ==
  /\ WifiPending => (options.routerHost # Null \/ Dispatched("gateway"))
  /\ WifiPending => Dispatched("dnsServer")
  /\ WifiPending => Dispatched("internetPing")
  /\ (gateway # Undefined /\ Truthy(gateway) /\ ~Terminated) => Dispatched("routerPing")

\* C10 as amended: the gateway probe starts only after the Wi-Fi probe has
\* returned, the DNS-server probe only after the gateway is resolved, and the
\* router ping, internet ping, DNS lookup and speed test are dispatched
\* together, only after all three; none of the four waits for another.
C10_SequentialFirstWave ==
  /\ Dispatched("gateway") => wifi # Undefined
  /\ Dispatched("dnsServer") => (wifi # Undefined /\ gateway # Undefined)
  /\ \A k \in Slots :
       Dispatched(k) => (wifi # Undefined /\ gateway # Undefined /\ dnsServer # Undefined)
  /\ (\E k \in Slots : Dispatched(k)) <=> dnsServer # Undefined
  /\ dnsServer # Undefined =>
       /\ Dispatched("internetPing")
       /\ Dispatched("dnsLookup")
       /\ Dispatched("routerPing") <=> Truthy(gateway)
       /\ Dispatched("speedtest") <=> options.speedtest

C10_Witness ==
  /\ pc = "join"
  /\ \A k \in Slots : procs[k].status = "running"

\* ------------------------------------------------------------------------
\* C11
\* ------------------------------------------------------------------------
\* C11: every run ends, even when an external utility never exits: the
\* process runner gives up on it after its timeout, so main reaches its
\* exit code (or the usage or crash exit) in every fair execution.
C11_RunNeverHangs == <>Terminated

\* ------------------------------------------------------------------------
\* C12
\* ------------------------------------------------------------------------
WifiParsers == {"parseAirportOutput", "parseSystemProfilerOutput"}

\* the band the channel alone determines
BandOfChannel(channel) ==
  IF channel = Null THEN Null
  ELSE IF channel.t = "num" /\ channel.n > 14 THEN Str(Band5)
  ELSE Str(Band24)

\* C12: in every WifiState either Wi-Fi parser returns, band is the band of
\* the channel: null exactly when channel is null, "5 GHz" when the channel
\* is above 14 and "2.4 GHz" otherwise.
C12_BandFollowsChannel ==
  call.fn \in WifiParsers => call.ret.band = BandOfChannel(call.ret.channel)

\* ------------------------------------------------------------------------
\* C13
\* ------------------------------------------------------------------------
\* a decimal numeral whose value is zero: "0", "0.0", "0.000"
ZeroText(s) ==
  /\ \A i \in 1..Len(s) : s[i] \in {"0", "."}
  /\ \E i \in 1..Len(s) : s[i] = "0"

\* ping printed a loss percentage of zero / a round-trip average of zero
MeasuredZeroLoss(stdout) ==
  LossMatch(stdout).t = "str" /\ ZeroText(LossMatch(stdout).s)

MeasuredZeroAvg(stdout) ==
  RttMatch(stdout).t = "obj" /\ ZeroText(RttMatch(stdout).o[2])

\* the throughput test printed an object whose member name is the number 0
MeasuredZeroThroughput(stdout, name) ==
  Get(JSONParse(stdout), name) = Num(0)

\* C13: a value measured as exactly zero is returned as the number 0, never
\* as null: the loss percentage and the round-trip average of pingHost,
\* whether or not the ping process failed, and the download and upload
\* throughput of runSpeedTest.
C13_MeasuredZeroIsZero ==
  /\ call.fn = "pingHost" =>
       /\ MeasuredZeroLoss(call.result.stdout) => call.ret.lossPct = Num(0)
       /\ MeasuredZeroAvg(call.result.stdout) => call.ret.avgMs = Num(0)
  /\ (call.fn = "runSpeedTest" /\ ProcessSucceeded) =>
       /\ MeasuredZeroThroughput(call.result.stdout, "dl_throughput") =>
            (~call.threw /\ call.ret.downloadMbps = Num(0))
       /\ MeasuredZeroThroughput(call.result.stdout, "ul_throughput") =>
            (~call.threw /\ call.ret.uploadMbps = Num(0))

\* ------------------------------------------------------------------------
\* C14
\* ------------------------------------------------------------------------
Errored(p) == procs[p].status = "exited" /\ Truthy(procs[p].result.error)

\* C14: the Wi-Fi probe follows its fallback chain.  The primary tool is
\* invoked only once its existence check has succeeded; the fallback tool
\* is invoked exactly when the primary is missing or has errored, so never
\* after a primary success; the probe returns null exactly when the
\* fallback has errored, and an object after a success of either tool.
C14_WifiProbeStateMachine ==
  /\ Dispatched("airport") => access = "ok"
  /\ Dispatched("profiler") <=> (access = "missing" \/ Errored("airport"))
  /\ Succeeded("airport") => ~Dispatched("profiler")
  /\ wifi # Undefined =>
       /\ wifi = Null <=> Errored("profiler")
       /\ wifi # Null <=> (Succeeded("airport") \/ Succeeded("profiler"))
  /\ (Succeeded("airport") \/ Succeeded("profiler")) => wifi.t = "obj"

\* primary found and errored, fallback errored: the probe returned null
C14_Witness ==
  /\ access = "ok"
  /\ Errored("airport")
  /\ Errored("profiler")
  /\ spawned[1] = "airport" /\ spawned[2] = "profiler"
  /\ wifi = Null

\* primary succeeded on output with no field the parser knows
C14_EmptyWifiState ==
  /\ Succeeded("airport")
  /\ procs["airport"].result.stdout = AirportOffText
  /\ wifi.t = "obj"
  /\ wifi.o.ssid = Null /\ wifi.o.channel = Null /\ wifi.o.signalDbm = Null
====
